---- MODULE Spec2Model ----
(***************************************************************************)
(* The offline caching layer of the tutorial platform: the service worker  *)
(* of static/sw.js (install, activate, fetch and its four strategies)      *)
(* running against the browser's CacheStorage and the network.             *)
(*                                                                         *)
(* A URL is a record of its protocol, origin and pathname; a pathname is   *)
(* the sequence of its segments ("/" is <<>>).  A response is a record of  *)
(* where it was made (kind), its status and its body; a network body is    *)
(* the serial number of the network answer that produced it, so that two   *)
(* answers for one URL are told apart.                                     *)
(***************************************************************************)
EXTENDS Integers, Sequences, FiniteSets, TLC

\* The number of requests the pages issue in one run of the model.
MaxRequests == 2

\* The number of modules of the course.
MaxModules == 3

\* The number of calls of toggleModuleCompletion in one run of the model.
MaxToggles == 2

\* The number of drag-and-drop reorders in one run of the model.
MaxReorders == 2

----------------------------------------------------------------------------
\* Cache names

CACHE_VERSION == "v2"

STATIC_CACHE == "tutorial-platform-static-v2"

DYNAMIC_CACHE == "tutorial-platform-dynamic-v2"

API_CACHE == "tutorial-platform-api-v2"

\* The cache of the previous worker generation, and a partition of another
\* version of this worker: the caches an activation finds and purges.
OLD_CACHE == "tutorial-platform-v1"

OLD_API_CACHE == "tutorial-platform-api-v1"

CurrentCaches == {STATIC_CACHE, DYNAMIC_CACHE, API_CACHE}

StaleCaches == {OLD_CACHE, OLD_API_CACHE}

CacheNames == CurrentCaches \cup StaleCaches

----------------------------------------------------------------------------
\* URLs and requests

SelfOrigin == "https://learn.example"

CdnOrigin == "https://cdn.jsdelivr.net"

Url(protocol, origin, pathname) ==
    [protocol |-> protocol, origin |-> origin, pathname |-> pathname]

RootUrl == Url("https:", SelfOrigin, <<>>)

StyleUrl == Url("https:", SelfOrigin, <<"static", "css", "style.css">>)

CdnUrl == Url("https:", CdnOrigin, <<"npm", "bootstrap.min.css">>)

ApiUrl == Url("https:", SelfOrigin, <<"api", "feedback">>)

PageUrl == Url("https:", SelfOrigin, <<"module", "1">>)

ExtUrl == Url("chrome-extension:", "chrome-extension://abc", <<"inject.js">>)

\* STATIC_RESOURCES: the strings of the pre-cache manifest.  A relative entry
\* is a pathname; an absolute entry is a full URL and is never equal to a
\* pathname.  (One entry of each kind of the manifest is kept.)
STATIC_RESOURCES ==
    { [absolute |-> FALSE, origin |-> SelfOrigin, pathname |-> <<>>],
      [absolute |-> FALSE, origin |-> SelfOrigin,
       pathname |-> <<"static", "css", "style.css">>],
      [absolute |-> TRUE, origin |-> CdnOrigin,
       pathname |-> <<"npm", "bootstrap.min.css">>] }

\* The URL cache.addAll requests for a manifest entry.
Resolve(e) == Url("https:", e.origin, e.pathname)

ManifestUrls == { Resolve(e) : e \in STATIC_RESOURCES }

\* STATIC_RESOURCES.includes(url.pathname)
ManifestIncludes(pathname) ==
    \E e \in STATIC_RESOURCES : ~e.absolute /\ e.pathname = pathname

\* pathname.startsWith('/' + first + '/')
StartsWith(pathname, first) == Len(pathname) >= 2 /\ pathname[1] = first

Req(method, url, mode, html) ==
    [method |-> method, url |-> url, mode |-> mode, acceptHtml |-> html]

\* The requests the pages issue.
Requests ==
    { Req("GET", RootUrl, "navigate", TRUE),
      Req("GET", StyleUrl, "no-cors", FALSE),
      Req("GET", CdnUrl, "no-cors", FALSE),
      Req("GET", ApiUrl, "cors", FALSE),
      Req("POST", ApiUrl, "cors", FALSE),
      Req("GET", PageUrl, "navigate", TRUE),
      Req("GET", PageUrl, "cors", FALSE),
      Req("GET", ExtUrl, "no-cors", FALSE) }

NoRequest == Req("none", RootUrl, "none", FALSE)

\* The GET requests handleRequest is checked on: every mode and accept
\* header over same-origin and cross-origin URLs under /static/, under /api/,
\* of the manifest, and of pages.
OtherOrigin == "https://other.example"

ClassifyUrls ==
    { RootUrl, StyleUrl, CdnUrl, ApiUrl, PageUrl,
      Url("https:", SelfOrigin, <<"static", "js", "main.js">>),
      Url("https:", SelfOrigin, <<"static">>),
      Url("https:", SelfOrigin, <<"api">>),
      Url("https:", OtherOrigin, <<"api", "feedback">>),
      Url("https:", OtherOrigin, <<"module", "1">>) }

ClassifyRequests ==
    { Req("GET", u, m, h) : u \in ClassifyUrls,
                            m \in {"navigate", "cors", "no-cors"},
                            h \in BOOLEAN }

----------------------------------------------------------------------------
\* Responses

Resp(kind, status, body) == [kind |-> kind, status |-> status, body |-> body]

NoResponse == Resp("none", 0, 0)

\* A rejected fetch seen by the page of a request that was not intercepted.
NetworkError == Resp("networkError", 0, 0)

\* response.ok
Ok(r) == r.status >= 200 /\ r.status <= 299

NetOutcomes == {"ok", "bad", "fail"}

\* The outcomes of fetch(request) in a handler: a cross-origin request of
\* mode no-cors is answered with an opaque response (status 0, ok false)
\* whatever the server sent, or fails.
HandlerOutcomes == NetOutcomes \cup {"opaque"}

Answers(req) ==
    IF req.mode = "no-cors" /\ req.url.origin # SelfOrigin
    THEN {"opaque", "fail"}
    ELSE NetOutcomes

\* What the network answers: one answer per serial number.
NetResponse(outcome, seq) ==
    IF outcome = "ok" THEN Resp("network", 200, seq)
    ELSE IF outcome = "bad" THEN Resp("network", 404, seq)
    ELSE IF outcome = "opaque" THEN Resp("opaque", 0, seq)
    ELSE NoResponse

\* new Response('Resource not available offline', {status: 503})
StaticUnavailable == Resp("staticUnavailable", 503, 0)

\* new Response(JSON.stringify({error: ...}), {status: 503})
ApiUnavailable == Resp("apiError", 503, 0)

\* new Response('Content not available offline', {status: 503})
DynamicUnavailable == Resp("dynamicUnavailable", 503, 0)

\* createOfflinePage()
createOfflinePage == Resp("offlinePage", 200, 0)

Synthesized ==
    {StaticUnavailable, ApiUnavailable, DynamicUnavailable, createOfflinePage}

----------------------------------------------------------------------------
VARIABLES
    swState,        \* "parsed", "installing", "installed", "activating", "activated"
    installPc,      \* the await the install handler is at
    precache,       \* the manifest URLs fetched for the cache.addAll in progress
    installResult,  \* how the promise given to event.waitUntil settled
    skipWaiting,    \* self.skipWaiting() was called
    activatePc,     \* "idle", "keys" (caches.keys pending), "deleting", "settled"
    deleting,       \* the caches.delete calls that have not settled
    claimed,        \* self.clients.claim() has settled
    activateResult, \* how the promise given to event.waitUntil settled
    atActivate,     \* CacheStorage as it was when the activate event fired
    cacheList,      \* the names of CacheStorage, in creation order
    store,          \* the entries of each cache: a set of [key, resp]
    tasks,          \* the requests issued, each with the place of its handler
    pendingPuts,    \* the cache.put calls that have not settled
    netSeq          \* the number of answers the network has given

\* The page script: clearAppCache and hardRefresh.
VARIABLES
    refreshPc,      \* the await hardRefresh (in clearAppCache) is at
    clearing,       \* the caches.delete calls of clearAppCache that have not settled
    swInbox         \* the messages posted to the worker and not yet dispatched

refreshVars == << refreshPc, clearing, swInbox >>

\* The page script: the progress of the user.
VARIABLES
    completedModules,   \* the array completedModules
    progressLoaded,     \* loadProgressFromServer has run
    toggles             \* the calls of toggleModuleCompletion

progressVars == << completedModules, progressLoaded, toggles >>

\* The admin script: the list of modules.
VARIABLES
    currentModules,     \* the array currentModules
    domItems,           \* the .module-item elements, in document order
    serverModules,      \* the list the server has saved
    adminLoads,         \* the fetches of loadModules that have not settled
    orders              \* the calls of updateModuleOrder

adminVars == << currentModules, domItems, serverModules, adminLoads, orders >>

pageVars == << refreshVars, progressVars, adminVars >>

Modules == 1 .. MaxModules

ToggleIds == 1 .. MaxToggles

OrderIds == 1 .. MaxReorders

\* A call of toggleModuleCompletion that has not started.
NoToggle == [pc |-> "idle", moduleId |-> 0, index |-> -1, completed |-> FALSE]

\* A call of updateModuleOrder that has not started.
NoOrder == [pc |-> "idle", newOrder |-> <<>>, shown |-> <<>>]

swVars == << swState, installPc, precache, installResult, skipWaiting, activatePc, deleting,
             claimed, activateResult, atActivate, cacheList, store, tasks,
             pendingPuts, netSeq >>

vars == << swVars, pageVars >>

lifecycleVars == << swState, installPc, precache, installResult, skipWaiting, activatePc,
                    deleting, claimed, activateResult, atActivate >>

TaskIds == 1 .. MaxRequests

----------------------------------------------------------------------------
\* CacheStorage

Range(seq) == { seq[i] : i \in 1 .. Len(seq) }

\* The key of a cache entry: the request's method and URL.
Key(req) == [method |-> req.method, url |-> req.url]

Entry(req, resp) == [key |-> Key(req), resp |-> resp]

\* cache.match(request) on one cache: exact key, or nothing.
cacheMatch(entries, req) ==
    IF \E e \in entries : e.key = Key(req)
    THEN (CHOOSE e \in entries : e.key = Key(req)).resp
    ELSE NoResponse

\* caches.match(request): the first match over all caches, in creation order.
RECURSIVE matchFrom(_, _, _, _)
matchFrom(list, st, req, i) ==
    IF i > Len(list) THEN NoResponse
    ELSE IF cacheMatch(st[list[i]], req) # NoResponse
         THEN cacheMatch(st[list[i]], req)
         ELSE matchFrom(list, st, req, i + 1)

cachesMatch(req) == matchFrom(cacheList, store, req, 1)

\* caches.open(name): creates the cache when it does not exist.
cachesOpen(list, name) == IF name \in Range(list) THEN list ELSE Append(list, name)

\* cache.put(request, response): overwrites the entry of the same key.
cachePut(st, name, req, resp) ==
    [st EXCEPT ![name] = { e \in @ : e.key # Key(req) } \cup {Entry(req, resp)}]

\* caches.delete(name)
cachesDelete(list, name) == SelectSeq(list, LAMBDA n : n # name)

\* What the previous worker generations left in their caches.
OldEntries(name) ==
    IF name = OLD_CACHE
    THEN { Entry(Req("GET", RootUrl, "navigate", TRUE), Resp("network", 200, 0)),
           Entry(Req("GET", PageUrl, "navigate", TRUE), Resp("network", 200, 0)) }
    ELSE IF name = OLD_API_CACHE
    THEN { Entry(Req("GET", ApiUrl, "cors", FALSE), Resp("network", 200, 0)) }
    ELSE {}

----------------------------------------------------------------------------
\* The fetch listener and handleRequest

\* Mutant of Intercepted: the method test is dropped.
InterceptedAnyMethod(req) == req.url.protocol # "chrome-extension:"

\* The fetch listener calls respondWith only for these requests.
Intercepted(req) ==
    req.method = "GET" /\ req.url.protocol # "chrome-extension:"

\* Mutant of handleRequest: the /api/ test comes first.
handleRequestApiFirst(req) ==
    IF StartsWith(req.url.pathname, "api") THEN "API"
    ELSE IF \/ ManifestIncludes(req.url.pathname)
            \/ StartsWith(req.url.pathname, "static")
            \/ req.url.origin # SelfOrigin
    THEN "STATIC"
    ELSE IF req.mode = "navigate" \/ req.acceptHtml THEN "NAVIGATION"
    ELSE "DYNAMIC"

\* handleRequest: the strategy a request is dispatched to.
handleRequest(req) ==
    IF \/ ManifestIncludes(req.url.pathname)
       \/ StartsWith(req.url.pathname, "static")
       \/ req.url.origin # SelfOrigin
    THEN "STATIC"
    ELSE IF StartsWith(req.url.pathname, "api") THEN "API"
    ELSE IF req.mode = "navigate" \/ req.acceptHtml THEN "NAVIGATION"
    ELSE "DYNAMIC"

\* Mutant of PartitionOf: the API strategy opens the dynamic cache.
PartitionOfApiInDynamic(strategy) ==
    IF strategy = "STATIC" THEN STATIC_CACHE ELSE DYNAMIC_CACHE

\* The cache a strategy opens to store a 2xx network response.
PartitionOf(strategy) ==
    IF strategy = "STATIC" THEN STATIC_CACHE
    ELSE IF strategy = "API" THEN API_CACHE
    ELSE DYNAMIC_CACHE

\* The first await of a strategy: caches.match for cache-first, fetch otherwise.
FirstAwait(strategy) == IF strategy = "STATIC" THEN "cacheFirst" ELSE "fetch"

\* Mutant of OfflineFallback: the dynamic strategy answers with the offline page.
OfflineFallbackDynamicPage(strategy) ==
    IF strategy = "STATIC" THEN StaticUnavailable
    ELSE IF strategy = "API" THEN ApiUnavailable
    ELSE createOfflinePage

\* The response a strategy makes up when network and cache both miss.
OfflineFallback(strategy) ==
    IF strategy = "STATIC" THEN StaticUnavailable
    ELSE IF strategy = "API" THEN ApiUnavailable
    ELSE IF strategy = "NAVIGATION" THEN createOfflinePage
    ELSE DynamicUnavailable

Goto(pc, result) == [pc |-> pc, result |-> result]

\* Mutant of OnCatch: the error is thrown again instead of being answered.
OnCatchRethrow(strategy) == Goto("rejected", NoResponse)

\* Mutant of OnCatch: cache-first answers with the offline page.
OnCatchStaticOfflinePage(strategy) ==
    IF strategy = "STATIC" THEN Goto("done", createOfflinePage)
    ELSE Goto("fallbackMatch", NoResponse)

\* The catch block of a strategy: cache-first answers 503 at once, the
\* network-first strategies await caches.match.
OnCatch(strategy) ==
    IF strategy = "STATIC" THEN Goto("done", StaticUnavailable)
    ELSE Goto("fallbackMatch", NoResponse)

\* Mutant of OnCacheFirst: the cached response is not looked at.
OnCacheFirstAlwaysFetch(cached) == Goto("fetch", NoResponse)

\* After `await caches.match(request)` of the cache-first strategy.
OnCacheFirst(cached) ==
    IF cached # NoResponse THEN Goto("done", cached) ELSE Goto("fetch", NoResponse)

\* Mutant of OnFetch: the test of networkResponse.ok is missing.
OnFetchStoreAny(strategy, net) ==
    IF net = NoResponse THEN OnCatch(strategy)
    ELSE Goto("open", NoResponse)

\* Mutant of OnFetch: a non-2xx answer is treated like a failed fetch.
OnFetchBadIsFailure(strategy, net) ==
    IF net = NoResponse \/ ~Ok(net) THEN OnCatch(strategy)
    ELSE Goto("open", NoResponse)

\* After `await fetch(request)`: net is NoResponse when fetch rejected.
OnFetch(strategy, net) ==
    IF net = NoResponse THEN OnCatch(strategy)
    ELSE IF Ok(net) THEN Goto("open", NoResponse)
    ELSE Goto("done", net)

\* Mutant of OnFallbackMatch: the cached response is ignored.
OnFallbackMatchNoCache(strategy, cached) == Goto("done", OfflineFallback(strategy))

\* After `await caches.match(request)` in the catch block of a network-first
\* strategy.
OnFallbackMatch(strategy, cached) ==
    IF cached # NoResponse THEN Goto("done", cached)
    ELSE Goto("done", OfflineFallback(strategy))

\* A task is one request and the run of its handler: the request, the strategy
\* it was dispatched to, the await the handler is at (pc), whether a request
\* for the same URL had already been answered from a 2xx network response
\* when it was issued (refetch), how its fetch settled (outcome), the network response (net) and the response given to the page
\* (result).
NewTask ==
    [req |-> NoRequest, strategy |-> "none", pc |-> "unissued",
     refetch |-> FALSE, outcome |-> "none", net |-> NoResponse, result |-> NoResponse]

----------------------------------------------------------------------------
\* Initial state: the script is parsed; CacheStorage holds the caches the
\* earlier generations left.

Init ==
    /\ swState = "parsed"
    /\ installPc = "idle"
    /\ precache = {}
    /\ installResult = "pending"
    /\ skipWaiting = FALSE
    /\ activatePc = "idle"
    /\ deleting = {}
    /\ claimed = FALSE
    /\ activateResult = "pending"
    /\ atActivate = [list |-> <<>>, store |-> [c \in CacheNames |-> {}]]
    /\ cacheList = <<OLD_CACHE, OLD_API_CACHE>>
    /\ store = [c \in CacheNames |-> IF c \in Range(cacheList) THEN OldEntries(c) ELSE {}]
    /\ tasks = [t \in TaskIds |-> NewTask]
    /\ pendingPuts = {}
    /\ netSeq = 0
    /\ refreshPc = "idle"
    /\ clearing = {}
    /\ swInbox = 0
    /\ completedModules = <<>>
    /\ progressLoaded = FALSE
    /\ toggles = [c \in ToggleIds |-> NoToggle]
    /\ currentModules = <<>>
    /\ domItems = <<>>
    /\ serverModules = [i \in Modules |-> i]
    /\ adminLoads = 1
    /\ orders = [c \in OrderIds |-> NoOrder]

----------------------------------------------------------------------------
\* install listener

\* The install event fires: event.waitUntil(caches.open(STATIC_CACHE)...).
InstallEvent ==
    /\ swState = "parsed"
    /\ swState' = "installing"
    /\ installPc' = "open"
    /\ UNCHANGED << pageVars, precache, installResult, skipWaiting, activatePc, deleting,
                    claimed, activateResult, atActivate, cacheList, store, tasks,
                    pendingPuts, netSeq >>

\* caches.open(STATIC_CACHE) resolves; cache.addAll(STATIC_RESOURCES) starts.
InstallOpen ==
    /\ swState = "installing" /\ installPc = "open"
    /\ cacheList' = cachesOpen(cacheList, STATIC_CACHE)
    /\ installPc' = "addAll"
    /\ UNCHANGED << pageVars, swState, precache, installResult, skipWaiting, activatePc,
                    deleting, claimed, activateResult, atActivate, store, tasks,
                    pendingPuts, netSeq >>

\* The state of the worker once the .catch handler has logged the error: the
\* promise given to waitUntil is fulfilled, skipWaiting was not called.
InstallCatch == [state |-> "installed", result |-> "resolved", skipWaiting |-> FALSE]

\* The .then after addAll: self.skipWaiting(), and the promise is fulfilled.
InstallThen == [state |-> "installed", result |-> "resolved", skipWaiting |-> TRUE]

\* The entries cache.addAll writes when every manifest URL was fetched with a
\* 2xx status: all of them, at once.
addAll(st, seq) ==
    [st EXCEPT ![STATIC_CACHE] =
        { e \in @ : e.key.url \notin ManifestUrls }
        \cup { Entry(Req("GET", u, "no-cors", FALSE), Resp("network", 200, seq)) :
               u \in ManifestUrls }]

\* The fetches cache.addAll issued have settled.  fetched is the set of
\* manifest URLs the network answered with a 2xx status.
InstallFetches ==
    /\ swState = "installing" /\ installPc = "addAll"
    /\ \E fetched \in SUBSET ManifestUrls : precache' = fetched
    /\ installPc' = "fetched"
    /\ UNCHANGED << pageVars, swState, installResult, skipWaiting, activatePc, deleting,
                    claimed, activateResult, atActivate, cacheList, store, tasks,
                    pendingPuts, netSeq >>

\* cache.addAll settles: it stores all entries when every manifest URL was
\* fetched and rejects, storing nothing, otherwise.  The responses it held
\* are dropped.
InstallAddAll ==
    /\ swState = "installing" /\ installPc = "fetched"
    /\ IF precache = ManifestUrls
       THEN /\ store' = addAll(store, netSeq + 1)
            /\ netSeq' = netSeq + 1
            /\ swState' = InstallThen.state
            /\ installResult' = InstallThen.result
            /\ skipWaiting' = InstallThen.skipWaiting
       ELSE /\ UNCHANGED << store, netSeq >>
            /\ swState' = InstallCatch.state
            /\ installResult' = InstallCatch.result
            /\ skipWaiting' = InstallCatch.skipWaiting
    /\ precache' = {}
    /\ installPc' = "settled"
    /\ UNCHANGED << pageVars, activatePc, deleting, claimed, activateResult, atActivate,
                    cacheList, tasks, pendingPuts >>

\* caches.open(STATIC_CACHE) rejects (storage failure): the .catch handler runs.
InstallOpenFails ==
    /\ swState = "installing" /\ installPc = "open"
    /\ swState' = InstallCatch.state
    /\ installResult' = InstallCatch.result
    /\ skipWaiting' = InstallCatch.skipWaiting
    /\ installPc' = "settled"
    /\ UNCHANGED << pageVars, precache, activatePc, deleting, claimed, activateResult,
                    atActivate, cacheList, store, tasks, pendingPuts, netSeq >>

----------------------------------------------------------------------------
\* activate listener

\* Mutant of ToDelete: every cache is deleted, the current ones too.
ToDeleteAll(names) == names

\* Mutant of ToDelete: the comparison with STATIC_CACHE is missing.
ToDeleteStaticToo(names) ==
    { n \in names : n # DYNAMIC_CACHE /\ n # API_CACHE }

\* The caches the activate listener deletes, given the names caches.keys() lists.
ToDelete(names) ==
    { n \in names : n # STATIC_CACHE /\ n # DYNAMIC_CACHE /\ n # API_CACHE }

\* The activate event fires (at once after skipWaiting, or when no page is
\* left to the previous worker): caches.keys() and clients.claim() are called.
ActivateEvent ==
    /\ swState = "installed"
    /\ swState' = "activating"
    /\ activatePc' = "keys"
    /\ atActivate' = [list |-> cacheList, store |-> store]
    /\ UNCHANGED << pageVars, installPc, precache, installResult, skipWaiting, deleting,
                    claimed, activateResult, cacheList, store, tasks,
                    pendingPuts, netSeq >>

\* caches.keys() resolves: caches.delete is called for every stale name.
ActivateKeys ==
    /\ swState = "activating" /\ activatePc = "keys"
    /\ deleting' = ToDelete(Range(cacheList))
    /\ activatePc' = "deleting"
    /\ UNCHANGED << pageVars, swState, installPc, precache, installResult, skipWaiting,
                    claimed, activateResult, atActivate, cacheList, store, tasks,
                    pendingPuts, netSeq >>

\* One caches.delete(cacheName) resolves.
ActivateDelete(name) ==
    /\ name \in deleting
    /\ cacheList' = cachesDelete(cacheList, name)
    /\ store' = [store EXCEPT ![name] = {}]
    /\ deleting' = deleting \ {name}
    /\ UNCHANGED << pageVars, swState, installPc, precache, installResult, skipWaiting,
                    activatePc, claimed, activateResult, atActivate, tasks,
                    pendingPuts, netSeq >>

\* One caches.delete(cacheName) rejects: the cache stays, and Promise.all
\* rejects at once, whatever the other promises do.
ActivateDeleteFails(name) ==
    /\ name \in deleting
    /\ deleting' = deleting \ {name}
    /\ activateResult' = "rejected"
    /\ UNCHANGED << pageVars, swState, installPc, precache, installResult, skipWaiting,
                    activatePc, claimed, atActivate, cacheList, store, tasks,
                    pendingPuts, netSeq >>

\* self.clients.claim() resolves.
ClientsClaim ==
    /\ activatePc # "idle"
    /\ ~claimed
    /\ claimed' = TRUE
    /\ UNCHANGED << pageVars, swState, installPc, precache, installResult, skipWaiting,
                    activatePc, deleting, activateResult, atActivate, cacheList,
                    store, tasks, pendingPuts, netSeq >>

\* Mutant of PromiseAll: clients.claim() is left out of the array.
PromiseAllDeletesOnly ==
    IF activateResult = "rejected" THEN "rejected"
    ELSE IF activatePc = "deleting" /\ deleting = {} THEN "resolved"
    ELSE "pending"

\* The promise given to event.waitUntil: Promise.all over the deletes and
\* clients.claim() rejects with the first rejection and is fulfilled when
\* every promise is.
PromiseAll ==
    IF activateResult = "rejected" THEN "rejected"
    ELSE IF activatePc = "deleting" /\ deleting = {} /\ claimed THEN "resolved"
    ELSE "pending"

\* The promise given to waitUntil has settled: the worker is activated (also
\* when the promise rejected).
ActivateDone ==
    /\ swState = "activating"
    /\ PromiseAll # "pending"
    /\ swState' = "activated"
    /\ activatePc' = "settled"
    /\ activateResult' = PromiseAll
    /\ UNCHANGED << pageVars, installPc, precache, installResult, skipWaiting, deleting,
                    claimed, atActivate, cacheList, store, tasks, pendingPuts,
                    netSeq >>

----------------------------------------------------------------------------
\* fetch listener and the strategies

FetchedBefore(req) ==
    \E s \in TaskIds : /\ tasks[s].pc = "done"
                       /\ tasks[s].req.url = req.url
                       /\ Ok(tasks[s].net)

\* A page issues request req, the t-th of the run: the fetch event fires on the
\* activated worker.  A request that is not intercepted goes to the network;
\* an intercepted one runs handleRequest up to the first await of its strategy.
FetchEvent(t, req) ==
    /\ swState = "activated"
    /\ tasks[t].pc = "unissued"
    /\ \A s \in TaskIds : s < t => tasks[s].pc # "unissued"
    /\ tasks' = [tasks EXCEPT ![t] =
         IF Intercepted(req)
         THEN [NewTask EXCEPT !.req = req, !.strategy = handleRequest(req),
                              !.pc = FirstAwait(handleRequest(req)),
                              !.refetch = FetchedBefore(req)]
         ELSE [NewTask EXCEPT !.req = req, !.pc = "passthrough",
                              !.refetch = FetchedBefore(req)]]
    /\ UNCHANGED << pageVars, lifecycleVars, cacheList, store, pendingPuts, netSeq >>

\* The browser's own handling of a request the listener did not answer.
Passthrough(t, outcome) ==
    /\ tasks[t].pc = "passthrough"
    /\ netSeq' = IF outcome = "fail" THEN netSeq ELSE netSeq + 1
    /\ tasks' = [tasks EXCEPT ![t].pc = "done",
                              ![t].outcome = outcome,
                              ![t].net = NetResponse(outcome, netSeq + 1),
                              ![t].result = IF outcome = "fail" THEN NetworkError
                                            ELSE NetResponse(outcome, netSeq + 1)]
    /\ UNCHANGED << pageVars, lifecycleVars, cacheList, store, pendingPuts >>

\* handleStaticResource: `await caches.match(request)` resolves.
CacheFirstLookup(t) ==
    /\ tasks[t].pc = "cacheFirst"
    /\ tasks' = [tasks EXCEPT ![t].pc = OnCacheFirst(cachesMatch(tasks[t].req)).pc,
                              ![t].result = OnCacheFirst(cachesMatch(tasks[t].req)).result]
    /\ UNCHANGED << pageVars, lifecycleVars, cacheList, store, pendingPuts, netSeq >>

\* `await fetch(request)` settles, in any of the four strategies.
NetworkAnswers(t, outcome) ==
    /\ tasks[t].pc = "fetch"
    /\ outcome \in Answers(tasks[t].req)
    /\ netSeq' = IF outcome = "fail" THEN netSeq ELSE netSeq + 1
    /\ LET net == NetResponse(outcome, netSeq + 1)
           next == OnFetch(tasks[t].strategy, net)
       IN tasks' = [tasks EXCEPT ![t].outcome = outcome, ![t].net = net,
                                 ![t].pc = next.pc, ![t].result = next.result]
    /\ UNCHANGED << pageVars, lifecycleVars, cacheList, store, pendingPuts >>

\* What a strategy returns after cache.put was called: the put is not awaited.
OnOpen(net) == Goto("done", net)

\* `await caches.open(...)` resolves: cache.put(request, networkResponse.clone())
\* is called and the network response is returned.
OpenPartition(t) ==
    /\ tasks[t].pc = "open"
    /\ cacheList' = cachesOpen(cacheList, PartitionOf(tasks[t].strategy))
    /\ pendingPuts' = pendingPuts \cup
         { [task |-> t, cache |-> PartitionOf(tasks[t].strategy),
            req |-> tasks[t].req, resp |-> tasks[t].net] }
    /\ tasks' = [tasks EXCEPT ![t].pc = OnOpen(tasks[t].net).pc,
                              ![t].result = OnOpen(tasks[t].net).result]
    /\ UNCHANGED << pageVars, lifecycleVars, store, netSeq >>

\* `await caches.open(...)` rejects (storage failure): the catch block runs.
OpenPartitionFails(t) ==
    /\ tasks[t].pc = "open"
    /\ tasks' = [tasks EXCEPT ![t].pc = OnCatch(tasks[t].strategy).pc,
                              ![t].result = OnCatch(tasks[t].strategy).result]
    /\ UNCHANGED << pageVars, lifecycleVars, cacheList, store, pendingPuts, netSeq >>

\* A cache.put resolves: the entry is written.
PutSettles(p) ==
    /\ p \in pendingPuts
    /\ store' = IF p.cache \in Range(cacheList)
                THEN cachePut(store, p.cache, p.req, p.resp)
                ELSE store
    /\ pendingPuts' = pendingPuts \ {p}
    /\ UNCHANGED << pageVars, lifecycleVars, cacheList, tasks, netSeq >>

\* A cache.put rejects (quota exceeded): nothing is written, nobody is told.
PutFails(p) ==
    /\ p \in pendingPuts
    /\ pendingPuts' = pendingPuts \ {p}
    /\ UNCHANGED << pageVars, lifecycleVars, cacheList, store, tasks, netSeq >>

\* `await caches.match(request)` in the catch block of a network-first
\* strategy resolves.
FallbackLookup(t) ==
    /\ tasks[t].pc = "fallbackMatch"
    /\ LET next == OnFallbackMatch(tasks[t].strategy, cachesMatch(tasks[t].req))
       IN tasks' = [tasks EXCEPT ![t].pc = next.pc, ![t].result = next.result]
    /\ UNCHANGED << pageVars, lifecycleVars, cacheList, store, pendingPuts, netSeq >>

----------------------------------------------------------------------------
\* The page script: hardRefresh and clearAppCache

\* The user asks for a hard refresh: hardRefresh calls clearAppCache, which
\* awaits caches.keys().
HardRefresh ==
    /\ refreshPc = "idle"
    /\ refreshPc' = "keys"
    /\ UNCHANGED << swVars, progressVars, adminVars, clearing, swInbox >>

\* caches.keys() resolves: caches.delete is called for every cache.
ClearKeys ==
    /\ refreshPc = "keys"
    /\ clearing' = Range(cacheList)
    /\ refreshPc' = "deleting"
    /\ UNCHANGED << swVars, progressVars, adminVars, swInbox >>

\* One caches.delete(cacheName) of clearAppCache resolves.
ClearDelete(name) ==
    /\ name \in clearing
    /\ cacheList' = cachesDelete(cacheList, name)
    /\ store' = [store EXCEPT ![name] = {}]
    /\ clearing' = clearing \ {name}
    /\ UNCHANGED << lifecycleVars, tasks, pendingPuts, netSeq, refreshPc, swInbox,
                    progressVars, adminVars >>

\* navigator.serviceWorker.controller: once clients.claim() has settled the
\* page has a controller; before, it has one when the previous generation
\* of the worker controls it.
Controllers == IF claimed THEN {TRUE} ELSE BOOLEAN

\* Promise.all(deletePromises) resolves: the storages are cleared, and when
\* the page has a controller the CLEAR_CACHE message is posted to it and the
\* promise that waits for its reply is returned; without a controller
\* clearAppCache returns true and hardRefresh awaits getRegistrations().
ClearStorage(controlled) ==
    /\ refreshPc = "deleting" /\ clearing = {}
    /\ controlled \in Controllers
    /\ IF controlled
       THEN swInbox' = swInbox + 1 /\ refreshPc' = "waitReply"
       ELSE swInbox' = swInbox /\ refreshPc' = "registrations"
    /\ UNCHANGED << swVars, progressVars, adminVars, clearing >>

\* The message event is dispatched on the worker, which has no message
\* listener: nothing runs and nothing is posted to the port.
WorkerMessage ==
    /\ swInbox > 0
    /\ swInbox' = swInbox - 1
    /\ UNCHANGED << swVars, progressVars, adminVars, refreshPc, clearing >>

\* navigator.serviceWorker.getRegistrations() resolves.
GetRegistrations ==
    /\ refreshPc = "registrations"
    /\ refreshPc' = "unregister"
    /\ UNCHANGED << swVars, progressVars, adminVars, clearing, swInbox >>

\* registration.unregister() resolves and window.location.reload(true) runs.
UnregisterAndReload ==
    /\ refreshPc = "unregister"
    /\ refreshPc' = "reloaded"
    /\ UNCHANGED << swVars, progressVars, adminVars, clearing, swInbox >>

\* One step of hardRefresh, or of what it waits for.
RefreshStep ==
    \/ ClearKeys
    \/ \E n \in CacheNames : ClearDelete(n)
    \/ \E c \in BOOLEAN : ClearStorage(c)
    \/ WorkerMessage
    \/ GetRegistrations
    \/ UnregisterAndReload

----------------------------------------------------------------------------
\* The page script: loadProgressFromServer and toggleModuleCompletion

\* array.indexOf(x): the first index of x, from 0, or -1.
RECURSIVE indexFrom(_, _, _)
indexFrom(seq, x, i) ==
    IF i > Len(seq) THEN -1
    ELSE IF seq[i] = x THEN i - 1
    ELSE indexFrom(seq, x, i + 1)

indexOf(seq, x) == indexFrom(seq, x, 1)

\* array.splice(index, 1), for an index that is not negative.
splice(seq, index) ==
    [i \in 1 .. (IF index < Len(seq) THEN Len(seq) - 1 ELSE Len(seq)) |->
        IF i <= index THEN seq[i] ELSE seq[i + 1]]

\* Object.values(userProgress) of the completed modules: the ids in
\* ascending order of the keys.
RECURSIVE Ascending(_)
Ascending(S) ==
    IF S = {} THEN <<>>
    ELSE LET m == CHOOSE x \in S : \A y \in S : x <= y
         IN <<m>> \o Ascending(S \ {m})

\* loadProgressFromServer: the server lists the modules done; no toggle has
\* been made yet (the checkboxes get their listeners after the load).
LoadProgress(done) ==
    /\ ~progressLoaded
    /\ progressLoaded' = TRUE
    /\ completedModules' = Ascending(done)
    /\ UNCHANGED << swVars, refreshVars, adminVars, toggles >>

\* The checkbox of module m changes: toggleModuleCompletion(m) reads the
\* index of m and awaits the POST.
ToggleStart(c, m) ==
    /\ progressLoaded
    /\ toggles[c].pc = "idle"
    /\ \A b \in ToggleIds : b < c => toggles[b].pc # "idle"
    /\ toggles' = [toggles EXCEPT ![c] =
         [pc |-> "post", moduleId |-> m,
          index |-> indexOf(completedModules, m),
          completed |-> indexOf(completedModules, m) = -1]]
    /\ UNCHANGED << swVars, refreshVars, adminVars, completedModules, progressLoaded >>

\* completedModules after a POST that succeeded: push or splice with the
\* index read before the POST.
AfterPost(list, call) ==
    IF call.completed THEN Append(list, call.moduleId)
    ELSE splice(list, call.index)

\* The POST of call c settles: with a 2xx answer the array is updated, else
\* the catch block reverts the checkbox.
PostAnswers(c, outcome) ==
    /\ toggles[c].pc = "post"
    /\ IF outcome = "ok"
       THEN /\ completedModules' = AfterPost(completedModules, toggles[c])
            /\ toggles' = [toggles EXCEPT ![c].pc = "done"]
       ELSE /\ completedModules' = completedModules
            /\ toggles' = [toggles EXCEPT ![c].pc = "failed"]
    /\ UNCHANGED << swVars, refreshVars, adminVars, progressLoaded >>

----------------------------------------------------------------------------
\* The admin script: loadModules, renderModulesList and updateModuleOrder

\* renderModulesList: one .module-item per module, whose data-module-id is
\* the index of the module in currentModules and which shows that module.
renderModulesList(list) ==
    [i \in 1 .. Len(list) |-> [moduleId |-> i - 1, shown |-> list[i]]]

\* The list after the user has dragged the item at place i to place j.
Move(seq, i, j) ==
    LET rest == [k \in 1 .. Len(seq) - 1 |-> IF k < i THEN seq[k] ELSE seq[k + 1]]
    IN [k \in 1 .. Len(seq) |->
          IF k < j THEN rest[k] ELSE IF k = j THEN seq[i] ELSE rest[k - 1]]

\* The fetch of loadModules settles: with an answer the list of the server
\* is stored and rendered, else an alert is shown.
LoadModulesAnswers(outcome) ==
    /\ adminLoads > 0
    /\ adminLoads' = adminLoads - 1
    /\ IF outcome = "ok"
       THEN /\ currentModules' = serverModules
            /\ domItems' = renderModulesList(serverModules)
       ELSE UNCHANGED << currentModules, domItems >>
    /\ UNCHANGED << swVars, refreshVars, progressVars, serverModules, orders >>

\* Array.from(moduleItems).map(item => currentModules[parseInt(item.dataset.moduleId)])
NewOrder(items, list) == [k \in 1 .. Len(items) |-> list[items[k].moduleId + 1]]

\* The user drops the item of place i at place j: Sortable's onEnd calls
\* updateModuleOrder, which reads the new order from the DOM and awaits
\* getCsrfToken().  shown is the order of the modules on the screen.
Drag(c, i, j) ==
    /\ orders[c].pc = "idle"
    /\ \A b \in OrderIds : b < c => orders[b].pc # "idle"
    /\ i \in 1 .. Len(domItems) /\ j \in 1 .. Len(domItems) /\ i # j
    /\ domItems' = Move(domItems, i, j)
    /\ orders' = [orders EXCEPT ![c] =
         [pc |-> "token",
          newOrder |-> NewOrder(Move(domItems, i, j), currentModules),
          shown |-> [k \in 1 .. Len(domItems) |-> Move(domItems, i, j)[k].shown]]]
    /\ UNCHANGED << swVars, refreshVars, progressVars, currentModules,
                    serverModules, adminLoads >>

\* getCsrfToken() keeps the token once it has one.
Tokens ==
    IF \E b \in OrderIds : orders[b].pc \in {"put", "saved", "failed"}
    THEN {TRUE} ELSE BOOLEAN

\* getCsrfToken() resolves: with a token the PUT is sent, without one
\* loadModules() is called.
TokenAnswers(c, token) ==
    /\ orders[c].pc = "token"
    /\ token \in Tokens
    /\ IF token
       THEN orders' = [orders EXCEPT ![c].pc = "put"] /\ adminLoads' = adminLoads
       ELSE orders' = [orders EXCEPT ![c].pc = "noToken"] /\ adminLoads' = adminLoads + 1
    /\ UNCHANGED << swVars, refreshVars, progressVars, currentModules, domItems,
                    serverModules >>

\* The PUT settles: when the server has saved the list currentModules
\* becomes newOrder (nothing is rendered); else loadModules() is called.
PutAnswers(c, outcome) ==
    /\ orders[c].pc = "put"
    /\ IF outcome = "ok"
       THEN /\ serverModules' = orders[c].newOrder
            /\ currentModules' = orders[c].newOrder
            /\ orders' = [orders EXCEPT ![c].pc = "saved"]
            /\ adminLoads' = adminLoads
       ELSE /\ UNCHANGED << serverModules, currentModules >>
            /\ orders' = [orders EXCEPT ![c].pc = "failed"]
            /\ adminLoads' = adminLoads + 1
    /\ UNCHANGED << swVars, refreshVars, progressVars, domItems >>

----------------------------------------------------------------------------
\* Specifications

Lifecycle ==
    \/ InstallEvent
    \/ InstallOpen
    \/ InstallFetches
    \/ InstallAddAll
    \/ ActivateEvent
    \/ ActivateKeys
    \/ \E n \in CacheNames : ActivateDelete(n)
    \/ ClientsClaim
    \/ ActivateDone

Fetching ==
    \/ \E t \in TaskIds, req \in Requests : FetchEvent(t, req)
    \/ \E t \in TaskIds, o \in NetOutcomes : Passthrough(t, o)
    \/ \E t \in TaskIds : CacheFirstLookup(t)
    \/ \E t \in TaskIds, o \in HandlerOutcomes : NetworkAnswers(t, o)
    \/ \E t \in TaskIds : OpenPartition(t)
    \/ \E p \in pendingPuts : PutSettles(p)
    \/ \E t \in TaskIds : FallbackLookup(t)

\* Storage failures while a request is handled.
StorageFaults ==
    \/ \E t \in TaskIds : OpenPartitionFails(t)
    \/ \E p \in pendingPuts : PutFails(p)

\* Storage failures while the worker installs and activates.
LifecycleFaults ==
    \/ InstallOpenFails
    \/ \E n \in CacheNames : ActivateDeleteFails(n)

Next == Lifecycle \/ Fetching

\* The worker with a storage that always succeeds.
Spec == Init /\ [][Next]_vars

NextFaults == Next \/ StorageFaults

\* The worker with a storage whose opens and puts may fail while requests
\* are handled.
SpecFaults == Init /\ [][NextFaults]_vars

\* One step of the handler of request t: an awaited promise settles.
HandlerStep(t) ==
    \/ CacheFirstLookup(t)
    \/ \E o \in HandlerOutcomes : NetworkAnswers(t, o)
    \/ OpenPartition(t)
    \/ OpenPartitionFails(t)
    \/ FallbackLookup(t)

\* One intercepted request for each strategy of handleRequest.
StrategyRequests ==
    { Req("GET", StyleUrl, "no-cors", FALSE),
      Req("GET", ApiUrl, "cors", FALSE),
      Req("GET", PageUrl, "navigate", TRUE),
      Req("GET", PageUrl, "cors", FALSE) }

NextHandlers ==
    \/ Lifecycle
    \/ \E t \in TaskIds, req \in StrategyRequests : FetchEvent(t, req)
    \/ \E t \in TaskIds : HandlerStep(t)
    \/ \E p \in pendingPuts : PutSettles(p) \/ PutFails(p)

\* The handlers of intercepted requests, running concurrently against a
\* storage whose opens and puts may fail, where every promise a handler
\* awaits (a lookup, a fetch, an open) settles.
FairSpecHandlers ==
    Init /\ [][NextHandlers]_vars /\ WF_vars(\E t \in TaskIds : HandlerStep(t))

NextClassify ==
    \/ Lifecycle
    \/ \E t \in TaskIds, req \in ClassifyRequests : FetchEvent(t, req)

\* The worker dispatching requests of every shape: the fetch listener runs
\* handleRequest on each, the strategies are not run.
SpecClassify == Init /\ [][NextClassify]_vars

NextLifecycleFaults ==
    \/ Lifecycle
    \/ LifecycleFaults
    \/ \E t \in TaskIds, req \in Requests : FetchEvent(t, req)

\* The worker installing and activating on a storage whose opens and
\* deletes may fail, and the requests that reach it once it is activated;
\* the strategies are not run.
SpecLifecycleFaults == Init /\ [][NextLifecycleFaults]_vars

NextProgress ==
    \/ \E done \in SUBSET Modules : LoadProgress(done)
    \/ \E c \in ToggleIds, m \in Modules : ToggleStart(c, m)
    \/ \E c \in ToggleIds, o \in NetOutcomes : PostAnswers(c, o)

\* The page of a user who ticks and unticks the modules.
SpecProgress == Init /\ [][NextProgress]_vars

NextAdmin ==
    \/ \E o \in {"ok", "fail"} : LoadModulesAnswers(o)
    \/ \E c \in OrderIds, i, j \in Modules : Drag(c, i, j)
    \/ \E c \in OrderIds, token \in BOOLEAN : TokenAnswers(c, token)
    \/ \E c \in OrderIds, o \in NetOutcomes : PutAnswers(c, o)

\* The admin page of a user who reorders the modules.
SpecAdmin == Init /\ [][NextAdmin]_vars

\* The requests of a page that is being refreshed.
RefreshRequests == { Req("GET", ApiUrl, "cors", FALSE) }

NextRefresh ==
    \/ Lifecycle
    \/ \E t \in TaskIds, req \in RefreshRequests : FetchEvent(t, req)
    \/ \E t \in TaskIds, o \in HandlerOutcomes : NetworkAnswers(t, o)
    \/ \E t \in TaskIds : OpenPartition(t)
    \/ \E p \in pendingPuts : PutSettles(p)
    \/ \E t \in TaskIds : FallbackLookup(t)
    \/ HardRefresh
    \/ RefreshStep

\* The worker and a page whose user asks for a hard refresh.
SpecRefresh == Init /\ [][NextRefresh]_vars

\* The requests for the URLs the earlier generations had cached.
RevisitRequests ==
    { Req("GET", RootUrl, "navigate", TRUE),
      Req("GET", ApiUrl, "cors", FALSE),
      Req("GET", PageUrl, "navigate", TRUE) }

NextRevisit ==
    \/ Lifecycle
    \/ \E n \in CacheNames : ActivateDeleteFails(n)
    \/ \E t \in TaskIds, req \in RevisitRequests : FetchEvent(t, req)
    \/ \E t \in TaskIds : CacheFirstLookup(t)
    \/ \E t \in TaskIds, o \in HandlerOutcomes : NetworkAnswers(t, o)
    \/ \E t \in TaskIds : OpenPartition(t)
    \/ \E p \in pendingPuts : PutSettles(p)
    \/ \E t \in TaskIds : FallbackLookup(t)

\* The worker activated on a storage whose deletes may fail, handling
\* requests for URLs the earlier generations had cached.
SpecRevisit == Init /\ [][NextRevisit]_vars

----------------------------------------------------------------------------
\* Properties

NetworkFirst == {"API", "NAVIGATION", "DYNAMIC"}

Handling == {"cacheFirst", "fetch", "open", "fallbackMatch"}

Quiet == \A t \in TaskIds : tasks[t].pc \in {"unissued", "done"}

NoFetchYet == \A t \in TaskIds : tasks[t].pc = "unissued"

HasEntry(name, req) == cacheMatch(store[name], req) # NoResponse

IsNavigation(req) == req.mode = "navigate" \/ req.acceptHtml

\* The 2xx network responses the handlers of requests for url have received.
Received(url) ==
    { tasks[t].net : t \in { s \in TaskIds : /\ tasks[s].req.url = url
                                             /\ tasks[s].strategy # "none"
                                             /\ Ok(tasks[s].net) } }

\* The latest of them.
Latest(url) == CHOOSE r \in Received(url) : \A q \in Received(url) : q.body <= r.body

\* C1 (as claimed): a static request issued after a request for the same URL
\* was answered with a 2xx network response is answered from the cache, with
\* a response fetched earlier for that URL, without a fetch and never by a 503.
C1_CacheFirstIdempotence ==
    \A t \in TaskIds :
        (tasks[t].strategy = "STATIC" /\ tasks[t].refetch /\ tasks[t].pc = "done")
        => /\ tasks[t].outcome = "none"
           /\ tasks[t].result.status # 503
           /\ tasks[t].result \in Received(tasks[t].req.url)

\* C2 (as claimed): an API request whose fetch was answered 2xx returns that
\* answer, and when no handler is running the api partition holds, for every
\* URL fetched with a 2xx answer, the latest such answer.
C2_ApiFreshness ==
    /\ \A t \in TaskIds :
         (tasks[t].strategy = "API" /\ tasks[t].outcome = "ok" /\ tasks[t].pc = "done")
         => tasks[t].result = tasks[t].net
    /\ Quiet =>
         \A t \in TaskIds :
            (tasks[t].strategy = "API" /\ tasks[t].outcome = "ok")
            => cacheMatch(store[API_CACHE], tasks[t].req) = Latest(tasks[t].req.url)

\* C3: when the fetch of an API request has failed, the handler's lookup
\* answers with the entry the api partition holds for exactly that request,
\* as it was stored, and with the 503 JSON error only when there is none.
C3_ApiOfflineFallback ==
    [][\A t \in TaskIds :
         ( /\ tasks[t].strategy = "API"
           /\ tasks[t].outcome = "fail"
           /\ tasks[t].pc = "fallbackMatch"
           /\ tasks'[t].pc # "fallbackMatch" )
         => /\ tasks'[t].pc = "done"
            /\ tasks'[t].result =
                 IF HasEntry(API_CACHE, tasks[t].req)
                 THEN cacheMatch(store[API_CACHE], tasks[t].req)
                 ELSE ApiUnavailable]_vars

C3_Witness ==
    \E t \in TaskIds : /\ tasks[t].strategy = "API"
                       /\ tasks[t].outcome = "fail"
                       /\ tasks[t].pc = "done"
                       /\ tasks[t].result.kind = "network"
                       /\ tasks[t].result.status = 200

\* C4 (as claimed): a navigation request (mode navigate or accepting
\* text/html) whose fetch failed and whose URL is in no cache is answered
\* with the offline page.
C4_NavigationOfflinePage ==
    \A t \in TaskIds :
        ( /\ Intercepted(tasks[t].req)
          /\ IsNavigation(tasks[t].req)
          /\ tasks[t].pc = "done"
          /\ tasks[t].outcome = "fail"
          /\ cachesMatch(tasks[t].req) = NoResponse )
        => tasks[t].result = createOfflinePage

\* C5 (as claimed): a same-origin navigation is answered from the network: a
\* 2xx answer is the response returned, and a cached copy or a fallback is
\* returned only after the fetch of this request failed.
C5_NavigationFreshness ==
    \A t \in TaskIds :
        ( /\ Intercepted(tasks[t].req)
          /\ tasks[t].req.mode = "navigate"
          /\ tasks[t].req.url.origin = SelfOrigin
          /\ tasks[t].pc = "done" )
        => /\ tasks[t].outcome # "none"
           /\ tasks[t].outcome = "ok" => tasks[t].result = tasks[t].net

\* C6: once the worker is activated, every cache that had a name other than
\* the three current ones is gone, only current names are left, and every
\* current-named cache that existed when activation began still exists, with
\* the same entries as long as no request has been handled.
C6_ActivationPurge ==
    swState = "activated" =>
        /\ \A n \in Range(atActivate.list) :
             n \notin CurrentCaches => n \notin Range(cacheList) /\ store[n] = {}
        /\ \A n \in Range(cacheList) : n \in CurrentCaches
        /\ \A c \in Range(atActivate.list) \cap CurrentCaches :
             /\ c \in Range(cacheList)
             /\ \A e \in atActivate.store[c] : \E f \in store[c] : f.key = e.key
             /\ NoFetchYet => store[c] = atActivate.store[c]

C6_Witness ==
    /\ swState = "activated"
    /\ NoFetchYet
    /\ StaleCaches \subseteq Range(atActivate.list)
    /\ STATIC_CACHE \in Range(atActivate.list)
    /\ atActivate.store[STATIC_CACHE] # {}
    /\ atActivate.store[OLD_CACHE] # {}

\* C7: no cache entry and no pending write belongs to a request whose method
\* is not GET, and such a request is never dispatched to a strategy: its
\* answer is the network's own (or the network error), never a cached or a
\* made-up response.
C7_NonGetPassthrough ==
    /\ \A c \in CacheNames : \A e \in store[c] : e.key.method = "GET"
    /\ \A p \in pendingPuts : p.req.method = "GET"
    /\ \A t \in TaskIds :
         tasks[t].req.method \notin {"GET", "none"}
         => /\ tasks[t].strategy = "none"
            /\ tasks[t].pc \in {"passthrough", "done"}
            /\ tasks[t].pc = "done"
               => /\ tasks[t].result = IF tasks[t].outcome = "fail"
                                       THEN NetworkError ELSE tasks[t].net
                  /\ tasks[t].result \notin Synthesized

C7_Witness ==
    \E t \in TaskIds : /\ tasks[t].req.method = "POST"
                       /\ tasks[t].pc = "done"
                       /\ tasks[t].outcome = "ok"
                       /\ HasEntry(API_CACHE, Req("GET", tasks[t].req.url, "cors", FALSE))

\* C8 (as claimed): when the install promise has resolved, the static
\* partition holds an entry for every URL of the manifest.
C8_InstallPrepopulates ==
    installResult = "resolved" =>
        \A u \in ManifestUrls : HasEntry(STATIC_CACHE, Req("GET", u, "no-cors", FALSE))

C10_BadStatusFallsBack ==
    \A t \in TaskIds :
        ( /\ tasks[t].strategy \in NetworkFirst
          /\ tasks[t].outcome = "bad"
          /\ tasks[t].pc = "done" )
        => tasks[t].result =
             IF cachesMatch(tasks[t].req) # NoResponse
             THEN cachesMatch(tasks[t].req)
             ELSE OfflineFallback(tasks[t].strategy)

\* C10 (amended): a network-first request answered with a non-2xx status
\* returns that network response itself; the response is never stored and
\* the cache is not consulted.
C10_BadStatusReturned ==
    \A t \in TaskIds :
        (tasks[t].strategy \in NetworkFirst /\ tasks[t].outcome = "bad")
        => /\ tasks[t].pc = "done"
           /\ tasks[t].result = tasks[t].net
           /\ tasks[t].result.status = 404
           /\ \A p \in pendingPuts : p.task # t
           /\ \A c \in CacheNames : \A e \in store[c] : e.resp # tasks[t].net

C10_Witness ==
    \E t \in TaskIds : /\ tasks[t].strategy \in NetworkFirst
                       /\ tasks[t].outcome = "bad"
                       /\ tasks[t].pc = "done"
                       /\ cachesMatch(tasks[t].req) # NoResponse

\* C11: every entry of a current partition, and every response handed to
\* cache.put, is a network response with a status in 200..299: never a
\* non-2xx response, an opaque response or a response the worker made up.
C11_OnlySuccessCached ==
    /\ \A c \in CurrentCaches : \A e \in store[c] :
          /\ e.resp.kind = "network"
          /\ e.resp.status >= 200 /\ e.resp.status <= 299
    /\ \A p \in pendingPuts :
          /\ p.cache \in CurrentCaches
          /\ p.resp.kind = "network"
          /\ p.resp.status >= 200 /\ p.resp.status <= 299

C11_Witness ==
    /\ \E t \in TaskIds : tasks[t].pc = "done" /\ tasks[t].outcome = "opaque"
    /\ \E t \in TaskIds : tasks[t].pc = "done" /\ tasks[t].result \in Synthesized

\* C12: every intercepted GET request is dispatched to exactly one of the
\* four strategies, the first in the order STATIC, API, NAVIGATION, DYNAMIC
\* whose test it passes: STATIC when its path is under /static/, its URL is
\* in the manifest or its origin is not the worker's; else API when its path
\* is under /api/; else NAVIGATION when its mode is navigate or it accepts
\* text/html; else DYNAMIC.
C12_Classification ==
    \A t \in TaskIds :
        (tasks[t].pc # "unissued" /\ tasks[t].req.method = "GET") =>
            LET req == tasks[t].req
                path == req.url.pathname
                static == \/ Len(path) >= 2 /\ path[1] = "static"
                          \/ req.url \in ManifestUrls
                          \/ req.url.origin # SelfOrigin
                api == Len(path) >= 2 /\ path[1] = "api"
                nav == req.mode = "navigate" \/ req.acceptHtml
            IN /\ tasks[t].strategy \in {"STATIC", "API", "NAVIGATION", "DYNAMIC"}
               /\ static => tasks[t].strategy = "STATIC"
               /\ (~static /\ api) => tasks[t].strategy = "API"
               /\ (~static /\ ~api /\ nav) => tasks[t].strategy = "NAVIGATION"
               /\ (~static /\ ~api /\ ~nav) => tasks[t].strategy = "DYNAMIC"

C12_Witness ==
    /\ \E t \in TaskIds : /\ tasks[t].req.url.origin = OtherOrigin
                          /\ tasks[t].req.url.pathname = <<"api", "feedback">>
                          /\ tasks[t].req.mode = "navigate"
                          /\ tasks[t].strategy = "STATIC"
    /\ \E t \in TaskIds : /\ tasks[t].req.url = ApiUrl
                          /\ tasks[t].req.mode = "navigate"
                          /\ tasks[t].strategy = "API"

\* C13 (as claimed): a handler whose fetch was answered with a 2xx status
\* returns that network response, whether or not the partition could be
\* opened and the put succeeded: never a 503, never a cached substitute.
C13_StorageFailureNonFatal ==
    \A t \in TaskIds :
        ( /\ tasks[t].strategy # "none"
          /\ tasks[t].outcome = "ok"
          /\ tasks[t].pc = "done" )
        => tasks[t].result = tasks[t].net

\* C14 (as claimed): when cache.addAll settles after every fetch of the
\* manifest failed, the install promise is rejected and the worker does not
\* become installed.
C14_AllFailIsFatal ==
    [][ (installPc = "fetched" /\ precache = {} /\ installPc' = "settled")
        => (installResult' = "rejected" /\ swState' # "installed") ]_vars

\* C15 (as claimed): when cache.addAll settles after some fetches of the
\* manifest failed and others succeeded, the worker becomes installed and the
\* static partition holds an entry for every URL that was fetched.
C15_LenientPrecache ==
    [][ ( /\ installPc = "fetched"
          /\ precache # {} /\ precache # ManifestUrls
          /\ installPc' = "settled" )
        => ( /\ swState' = "installed"
             /\ \A u \in precache :
                   cacheMatch(store'[STATIC_CACHE], Req("GET", u, "no-cors", FALSE))
                       # NoResponse ) ]_vars

\* C16 (as claimed): whenever the install promise has resolved,
\* self.skipWaiting() has been called.
C16_SkipWaitingAlways ==
    installResult = "resolved" => skipWaiting

\* C17: a request is handled only by a worker that is activated, after
\* every stale cache was deleted and clients.claim() has settled: from the
\* first fetch event on, CacheStorage holds current partitions only.
C17_ActiveAfterPurgeAndClaim ==
    /\ (\E t \in TaskIds : tasks[t].pc # "unissued") => swState = "activated"
    /\ swState = "activated" =>
          /\ claimed
          /\ deleting = {}
          /\ activateResult = "resolved"
          /\ Range(cacheList) \subseteq CurrentCaches

C17_Witness ==
    /\ \E t \in TaskIds : tasks[t].pc # "unissued"
    /\ Range(atActivate.list) \cap StaleCaches # {}

\* C18 (as claimed): a caches.delete that rejects during activation is
\* absorbed: the promise given to waitUntil is never rejected, and the worker
\* is activated with that promise resolved, every delete settled and the
\* clients claimed.
C18_DeleteFailureAbsorbed ==
    /\ activateResult # "rejected"
    /\ swState = "activated" =>
          /\ activateResult = "resolved"
          /\ deleting = {}
          /\ claimed

\* C19 (as claimed): when caches.open(STATIC_CACHE) rejects during install,
\* the install promise is rejected.
C19_OpenFailureIsFatal ==
    [][ (installPc = "open" /\ installPc' = "settled")
        => installResult' = "rejected" ]_vars

\* C20 (as claimed): when the handler of a request has returned a 2xx
\* network response, the partition of its strategy holds an entry for that
\* request.
C20_StoreBeforeReturn ==
    \A t \in TaskIds :
        ( /\ tasks[t].strategy # "none"
          /\ tasks[t].outcome = "ok"
          /\ tasks[t].pc = "done"
          /\ tasks[t].result = tasks[t].net )
        => HasEntry(PartitionOf(tasks[t].strategy), tasks[t].req)

\* C21: when the lookup of the cache-first strategy finds an entry for the
\* request, the handler returns that entry at once: no fetch is issued and
\* nothing is written to any cache, whatever the network would answer.
C21_CacheFirstHit ==
    [][ \A t \in TaskIds :
          ( /\ tasks[t].pc = "cacheFirst"
            /\ cachesMatch(tasks[t].req) # NoResponse
            /\ tasks'[t] # tasks[t] )
          => ( /\ tasks'[t].pc = "done"
               /\ tasks'[t].result = cachesMatch(tasks[t].req)
               /\ tasks'[t].outcome = "none"
               /\ tasks'[t].net = NoResponse
               /\ netSeq' = netSeq
               /\ store' = store
               /\ cacheList' = cacheList
               /\ pendingPuts' = pendingPuts ) ]_vars

C21_Witness ==
    \E t \in TaskIds : /\ tasks[t].strategy = "STATIC"
                       /\ tasks[t].pc = "done"
                       /\ tasks[t].outcome = "none"
                       /\ tasks[t].result.kind = "network"
                       /\ HasEntry(STATIC_CACHE, tasks[t].req)

\* C22: when the fetch of the cache-first strategy fails (the lookup had
\* missed), the handler returns the made-up 503 response, not the offline
\* page, and no cache is changed.
C22_CacheFirstMissOffline ==
    [][ \A t \in TaskIds :
          ( /\ tasks[t].strategy = "STATIC"
            /\ tasks[t].pc = "fetch"
            /\ tasks'[t].outcome = "fail" )
          => ( /\ tasks'[t].pc = "done"
               /\ tasks'[t].result.status = 503
               /\ tasks'[t].result = StaticUnavailable
               /\ tasks'[t].result # createOfflinePage
               /\ store' = store
               /\ cacheList' = cacheList
               /\ pendingPuts' = pendingPuts ) ]_vars

C22_Witness ==
    \E t \in TaskIds : /\ tasks[t].strategy = "STATIC"
                       /\ tasks[t].pc = "done"
                       /\ tasks[t].outcome = "fail"
                       /\ cachesMatch(tasks[t].req) = NoResponse

\* The URLs that are keys of a cache or of a put under way to it.
KeysOf(name) ==
    { e.key.url : e \in store[name] }
    \cup { p.req.url : p \in { q \in pendingPuts : q.cache = name } }

UnderPrefix(url, first) == Len(url.pathname) >= 2 /\ url.pathname[1] = first

\* C23: the static partition is written by install and the static strategy
\* only, the api partition by the API strategy only, the dynamic partition by
\* the navigation and dynamic strategies only.  So every key of the api
\* partition is a same-origin URL under /api/, no key of the dynamic partition
\* is under /api/ or /static/, in the manifest or cross-origin, and no URL is
\* a key of two current partitions.
C23_PartitionOwnership ==
    /\ \A p \in pendingPuts :
          /\ p.cache = STATIC_CACHE => tasks[p.task].strategy = "STATIC"
          /\ p.cache = API_CACHE => tasks[p.task].strategy = "API"
          /\ p.cache = DYNAMIC_CACHE => tasks[p.task].strategy \in {"NAVIGATION", "DYNAMIC"}
          /\ p.cache \in CurrentCaches
    /\ \A u \in KeysOf(API_CACHE) : u.origin = SelfOrigin /\ UnderPrefix(u, "api")
    /\ \A u \in KeysOf(DYNAMIC_CACHE) :
          /\ u.origin = SelfOrigin
          /\ ~UnderPrefix(u, "api")
          /\ ~UnderPrefix(u, "static")
          /\ u \notin ManifestUrls
    /\ \A c, d \in CurrentCaches : c # d => KeysOf(c) \cap KeysOf(d) = {}

C23_Witness ==
    /\ store[STATIC_CACHE] # {}
    /\ store[API_CACHE] # {}
    /\ store[DYNAMIC_CACHE] # {}

\* C24 (as claimed): a response a strategy serves from the cache is the
\* entry stored under the request's URL in the current partition of that
\* strategy, never an entry of another cache.
C24_PartitionScopedLookup ==
    [][ \A t \in TaskIds :
          ( /\ tasks[t].pc \in {"cacheFirst", "fallbackMatch"}
            /\ tasks'[t].pc = "done"
            /\ tasks'[t].result \notin Synthesized )
          => tasks'[t].result =
               cacheMatch(store[PartitionOf(tasks[t].strategy)], tasks[t].req) ]_vars

\* C25 (as claimed): a network-first handler fetches first, reads the cache
\* only after its fetch failed and makes up the offline fallback only after
\* that lookup missed: once the network has answered, the cache is not read
\* and the result is the network response.
C25_NetworkFirstOrdering ==
    \A t \in TaskIds :
        tasks[t].strategy \in NetworkFirst =>
            /\ tasks[t].pc \in {"open", "fallbackMatch", "done"} => tasks[t].outcome # "none"
            /\ tasks[t].pc = "fallbackMatch" => tasks[t].outcome = "fail"
            /\ (tasks[t].pc = "done" /\ tasks[t].result # tasks[t].net)
                   => tasks[t].outcome = "fail"

\* C27 (as claimed): the only responses the worker makes up are the offline
\* page and the JSON error; a DYNAMIC request whose fetch failed and whose
\* lookup missed is answered with one of them.
C27_TwoFailureSurfaces ==
    \A t \in TaskIds :
        (tasks[t].pc = "done" /\ tasks[t].result \in Synthesized)
        => tasks[t].result \in {createOfflinePage, ApiUnavailable}

\* C27 (amended): the worker makes up four responses, one per strategy: the
\* offline page (status 200) for NAVIGATION, the JSON error (503) for API, and
\* a plain-text 503 for STATIC and another for DYNAMIC; a DYNAMIC request
\* whose fetch failed and whose lookup missed gets its plain-text 503.
C27_FailureSurfacePerStrategy ==
    \A t \in TaskIds :
        /\ (tasks[t].pc = "done" /\ tasks[t].result \in Synthesized) =>
              /\ tasks[t].strategy = "NAVIGATION" =>
                    tasks[t].result = createOfflinePage /\ tasks[t].result.status = 200
              /\ tasks[t].strategy = "API" =>
                    tasks[t].result = ApiUnavailable /\ tasks[t].result.status = 503
              /\ tasks[t].strategy = "STATIC" =>
                    tasks[t].result = StaticUnavailable /\ tasks[t].result.status = 503
              /\ tasks[t].strategy = "DYNAMIC" =>
                    tasks[t].result = DynamicUnavailable /\ tasks[t].result.status = 503
        /\ ( /\ tasks[t].strategy = "DYNAMIC"
              /\ tasks[t].pc = "done"
              /\ tasks[t].outcome = "fail"
              /\ tasks[t].result.kind # "network" )
            => tasks[t].result = DynamicUnavailable

C27_Witness ==
    \E t \in TaskIds : /\ tasks[t].strategy = "DYNAMIC"
                       /\ tasks[t].pc = "done"
                       /\ tasks[t].outcome = "fail"
                       /\ tasks[t].result = DynamicUnavailable

\* C29 (as claimed): hardRefresh terminates: while it has not reloaded the
\* page, a step of it, or of what it waits for, is possible.
C29_ClearCacheTerminates ==
    refreshPc \notin {"idle", "reloaded"} => ENABLED RefreshStep

\* C26 (as claimed): an entry of a current partition is never removed: a key
\* of a current partition is a key of it after every step (no stale
\* partition is a current one, so activation deletes none of them).
C26_NoEviction ==
    [][ \A c \in CurrentCaches : \A e \in store[c] :
          \E f \in store'[c] : f.key = e.key ]_vars

\* C26 (amended): the worker never removes an entry of a current partition,
\* and a put leaves every other entry as it was; an entry goes away only
\* when clearAppCache, called by the page, deletes its whole partition.
C26_NoEvictionByWorker ==
    [][ \A c \in CurrentCaches :
          \/ c \in clearing /\ c \notin clearing' /\ store'[c] = {}
          \/ /\ \A e \in store[c] : \E f \in store'[c] : f.key = e.key
             /\ (c \in Range(cacheList) => c \in Range(cacheList'))
             /\ \A e \in store[c] :
                   e \in store'[c] \/ \E p \in pendingPuts :
                       p.cache = c /\ Key(p.req) = e.key /\ p \notin pendingPuts' ]_vars

C26_Witness ==
    /\ \E t \in TaskIds : tasks[t].pc = "done" /\ tasks[t].net.body > 1
                          /\ cacheMatch(store[API_CACHE], tasks[t].req) = tasks[t].net
    /\ \E t \in TaskIds : tasks[t].pc = "done" /\ tasks[t].outcome = "ok"
                          /\ cacheMatch(store[API_CACHE], tasks[t].req) # tasks[t].net

\* C28 (as claimed): completedModules never holds a module twice, and a
\* toggle that un-completes module m removes m and no other module.
C28_ToggleKeepsSet ==
    [][ /\ \A i, j \in 1 .. Len(completedModules') :
            i # j => completedModules'[i] # completedModules'[j]
        /\ \A c \in ToggleIds :
            ( /\ toggles[c].pc = "post"
              /\ toggles'[c].pc = "done"
              /\ ~toggles[c].completed )
            => Range(completedModules') = Range(completedModules) \ {toggles[c].moduleId} ]_vars

\* C30 (as claimed): a successful updateModuleOrder sends the server, and
\* leaves in currentModules, the modules in the order the screen showed when
\* the item was dropped.
C30_SavedOrderIsShownOrder ==
    [][ \A c \in OrderIds :
          (orders[c].pc = "put" /\ orders'[c].pc = "saved")
          => ( /\ serverModules' = orders[c].shown
               /\ currentModules' = orders[c].shown ) ]_vars

====
